---- MODULE Spec2Model ----
(***************************************************************************)
(* Model of package certutil (src/certutil.go): the four PEM parsers,      *)
(* ComparePublicKeys and KeySize.  Every operation is a pure function of   *)
(* its arguments; the state records the last call, its arguments, what it  *)
(* returned and which library primitives it invoked.                       *)
(*                                                                         *)
(* A Go interface value is a record with a "type" field holding its        *)
(* dynamic type as %T prints it; the nil interface has type "<nil>".       *)
(* A *big.Int is an integer; an error is its format string and the types   *)
(* it prints with %T, the nil error having the empty format.               *)
(***************************************************************************)
EXTENDS Integers, Sequences, FiniteSets

VARIABLES op, args, ret, calls, prev

vars == <<op, args, ret, calls, prev>>

----------------------------------------------------------------------------
(* Bounds of the enumerated inputs. *)

\* RSA moduli are taken at the byte-length boundaries 2^(8k)-1 and 2^(8k), k <= MaxModBytes.
MaxModBytes == 2
\* EC point coordinates range over 1..MaxCoord.
MaxCoord == 2
\* The varying bytes of an Ed25519 key range over 0..MaxByte.
MaxByte == 1
\* DSA public values Y range over 0..MaxY.
MaxY == 5

----------------------------------------------------------------------------
(* Values. *)

\* The nil interface value / nil pointer result.
Nil == [type |-> "<nil>"]

IsNil(v) == v.type = "<nil>"

\* errors.New(msg).
errorsNew(msg) == [fmt |-> msg, a |-> <<>>]

\* fmt.Errorf(format, a...), every argument printed with %T.
Errorf(format, a) == [fmt |-> format, a |-> a]

\* The nil error.
NoErr == errorsNew("")

RECURSIVE Pow2(_)
Pow2(k) == IF k = 0 THEN 1 ELSE 2 * Pow2(k - 1)

\* big.Int.BitLen: the length of |x| in bits; the bit length of 0 is 0.
RECURSIVE BitLen(_)
BitLen(x) == IF x = 0 THEN 0 ELSE 1 + BitLen(x \div 2)

\* big.Int.Cmp: -1, 0 or +1 by numeric order.
Cmp(x, y) == IF x < y THEN -1 ELSE IF x > y THEN 1 ELSE 0

\* len(key) of crypto/ed25519 public and private keys.
PublicKeySize == 32
PrivateKeySize == 64

Moduli == {3} \cup UNION {{Pow2(8 * k) - 1, Pow2(8 * k)} : k \in 1..MaxModBytes}

Exponents == {3, 65537}

\* elliptic.CurveParams.  The field values are small stand-ins for the
\* curves' integers; BitSize is the declared size.  CurveP256b has the
\* parameters of CurveP256 except for the coefficient B.
CurveP256 == [P |-> 23, N |-> 29, B |-> 7, Gx |-> 1, Gy |-> 2, BitSize |-> 256, Name |-> "P-256"]
CurveP256b == [P |-> 23, N |-> 29, B |-> 8, Gx |-> 1, Gy |-> 2, BitSize |-> 256, Name |-> "P-256b"]
CurveP224 == [P |-> 19, N |-> 17, B |-> 5, Gx |-> 3, Gy |-> 4, BitSize |-> 224, Name |-> "P-224"]

Curves == {CurveP256, CurveP256b, CurveP224}

\* Byte strings of length n that vary in their first and last byte.
Bytes(n) == {[i \in 1..n |-> IF i = 1 THEN a ELSE IF i = n THEN b ELSE 0] : a, b \in 0..MaxByte}

\* rsa.PublicKey{N, E}, held by reference ("*rsa.PublicKey") or by value.
RSAPublicKeys(t) == {[type |-> t, N |-> n, E |-> e] : n \in Moduli, e \in Exponents}

\* ecdsa.PublicKey{Curve, X, Y}.
ECPublicKeys(t) == {[type |-> t, Curve |-> c, X |-> x, Y |-> y] : c \in Curves, x, y \in 1..MaxCoord}

\* ed25519.PublicKey, a []byte of PublicKeySize bytes.
EdPublicKeys == {[type |-> "ed25519.PublicKey", bytes |-> b] : b \in Bytes(PublicKeySize)}

\* dsa.PublicKey{Parameters, Y}.
DSAPublicKeys(t) == {[type |-> t, Y |-> y] : y \in 0..MaxY}

\* rsa.PrivateKey embeds PublicKey and adds D.
RSAPrivateKeys(t) == {[type |-> t, N |-> n, E |-> e, D |-> 1] : n \in Moduli, e \in Exponents}

\* ecdsa.PrivateKey embeds PublicKey and adds D.
ECPrivateKeys(t) == {[type |-> t, Curve |-> c, X |-> 1, Y |-> 1, D |-> 1] : c \in Curves}

\* ed25519.PrivateKey, a []byte of PrivateKeySize bytes (seed and public key).
EdPrivateKeys == {[type |-> "ed25519.PrivateKey", bytes |-> b] : b \in Bytes(PrivateKeySize)}

\* dsa.PrivateKey embeds PublicKey and adds X.
DSAPrivateKeys(t) == {[type |-> t, Y |-> y, X |-> 1] : y \in 0..MaxY}

\* Values that are no key of the four families.
OtherValues == {Nil, [type |-> "*ecdh.PublicKey"], [type |-> "string"], [type |-> "int"]}

\* The key family of a dynamic type, whatever the form it is held in.
FamilyOf(t) ==
  CASE t \in {"*rsa.PublicKey", "rsa.PublicKey", "*rsa.PrivateKey", "rsa.PrivateKey"} -> "RSA"
    [] t \in {"*ecdsa.PublicKey", "ecdsa.PublicKey", "*ecdsa.PrivateKey", "ecdsa.PrivateKey"} -> "EC"
    [] t \in {"ed25519.PublicKey", "ed25519.PrivateKey"} -> "Ed25519"
    [] t \in {"*dsa.PublicKey", "dsa.PublicKey", "*dsa.PrivateKey", "dsa.PrivateKey"} -> "DSA"
    [] OTHER -> "other"

Family(key) == FamilyOf(key.type)

\* The public keys a caller hands to ComparePublicKeys: what the library's
\* parsers and key generators produce (crypto.PublicKey).
PublicKeys ==
  RSAPublicKeys("*rsa.PublicKey") \cup ECPublicKeys("*ecdsa.PublicKey") \cup EdPublicKeys
    \cup {[type |-> "*dsa.PublicKey", Y |-> 5], [type |-> "*ecdh.PublicKey"], Nil}

\* The values a caller hands to KeySize (key interface{}).
AnyKeys ==
  RSAPublicKeys("*rsa.PublicKey") \cup RSAPublicKeys("rsa.PublicKey")
    \cup RSAPrivateKeys("*rsa.PrivateKey") \cup RSAPrivateKeys("rsa.PrivateKey")
    \cup ECPublicKeys("*ecdsa.PublicKey") \cup ECPublicKeys("ecdsa.PublicKey")
    \cup ECPrivateKeys("*ecdsa.PrivateKey") \cup ECPrivateKeys("ecdsa.PrivateKey")
    \cup EdPublicKeys \cup EdPrivateKeys
    \cup DSAPublicKeys("dsa.PublicKey") \cup DSAPublicKeys("*dsa.PublicKey")
    \cup DSAPrivateKeys("dsa.PrivateKey") \cup DSAPrivateKeys("*dsa.PrivateKey")
    \cup OtherValues

----------------------------------------------------------------------------
(* The collaborators: encoding/pem and crypto/x509.  A text is described by *)
(* what the library makes of it: whether pem.Decode finds a block, the      *)
(* block's label, and for the block's payload the outcome of each DER       *)
(* decoder, each independent of the others.                                 *)

Ok(v) == [val |-> v, err |-> NoErr]

Fail(e) == [val |-> Nil, err |-> e]

ErrPKCS1 == errorsNew("x509: failed to parse private key")
ErrEC == errorsNew("x509: failed to parse EC private key")
ErrCurve == errorsNew("x509: unknown elliptic curve")
ErrCert == errorsNew("x509: malformed certificate")
ErrPKIX == errorsNew("x509: failed to parse public key")

\* What x509.ParsePKIXPublicKey and Certificate.PublicKey may hold.
DecodedKeys ==
  {[type |-> "*rsa.PublicKey", N |-> 255, E |-> 65537],
   [type |-> "*ecdsa.PublicKey", Curve |-> CurveP256, X |-> 1, Y |-> MaxCoord],
   [type |-> "ed25519.PublicKey", bytes |-> [i \in 1..PublicKeySize |-> 0]],
   [type |-> "*dsa.PublicKey", Y |-> MaxY],
   [type |-> "*ecdh.PublicKey"]}

Certificates == {[type |-> "*x509.Certificate", PublicKey |-> k] : k \in DecodedKeys \cup {Nil}}

Payloads ==
  [pkcs1 : {Fail(ErrPKCS1)} \cup {Ok(k) : k \in {[type |-> "*rsa.PrivateKey", N |-> 255, E |-> 65537, D |-> 1]}},
   sec1 : {Fail(ErrEC), Fail(ErrCurve)} \cup {Ok(k) : k \in {[type |-> "*ecdsa.PrivateKey", Curve |-> CurveP256, X |-> 1, Y |-> 1, D |-> 1]}},
   cert : {Fail(ErrCert)} \cup {Ok(c) : c \in Certificates},
   pkix : {Fail(ErrPKIX)} \cup {Ok(k) : k \in DecodedKeys}]

Labels == {"RSA PRIVATE KEY", "EC PRIVATE KEY", "CERTIFICATE", "PUBLIC KEY"}

NoPayload == [pkcs1 |-> Fail(ErrPKCS1), sec1 |-> Fail(ErrEC), cert |-> Fail(ErrCert), pkix |-> Fail(ErrPKIX)]

\* The input strings: PEM-armored texts and plain text such as "not a pem".
Texts ==
  [armored : {TRUE}, label : Labels, payload : Payloads]
    \cup {[armored |-> FALSE, label |-> "", payload |-> NoPayload]}

NilBlock == [nil |-> TRUE, Type |-> "", Bytes |-> NoPayload]

\* pem.Decode: the first block of the text, or nil when there is none.
pemDecode(s) ==
  IF s.armored THEN [nil |-> FALSE, Type |-> s.label, Bytes |-> s.payload] ELSE NilBlock

ParsePKCS1PrivateKey(der) == der.pkcs1

ParseECPrivateKey(der) == der.sec1

ParseCertificate(der) == der.cert

ParsePKIXPublicKey(der) == der.pkix

----------------------------------------------------------------------------
(* The parsers.  Each returns (value, error) and the primitives it called. *)

Returns(v, e, c) == [val |-> v, err |-> e, calls |-> c]

\* ParseRSA with a fault: it rejects a block whose label is not its own.
ParseRSAChecksLabel(s) ==
  LET block == pemDecode(s) IN
  IF block.nil \/ block.Type # "RSA PRIVATE KEY"
  THEN Returns(Nil, errorsNew("invalid PEM"), <<"pem.Decode">>)
  ELSE LET r == ParsePKCS1PrivateKey(block.Bytes)
       IN Returns(r.val, r.err, <<"pem.Decode", "x509.ParsePKCS1PrivateKey">>)

\* ParseRSA(s string) (*rsa.PrivateKey, error).
ParseRSA(s) ==
  LET block == pemDecode(s) IN
  IF block.nil
  THEN Returns(Nil, errorsNew("invalid PEM"), <<"pem.Decode">>)
  ELSE LET r == ParsePKCS1PrivateKey(block.Bytes)
       IN Returns(r.val, r.err, <<"pem.Decode", "x509.ParsePKCS1PrivateKey">>)

\* ParseECDSA(s string) (*ecdsa.PrivateKey, error).
ParseECDSA(s) ==
  LET block == pemDecode(s) IN
  IF block.nil
  THEN Returns(Nil, errorsNew("invalid PEM"), <<"pem.Decode">>)
  ELSE LET r == ParseECPrivateKey(block.Bytes)
       IN Returns(r.val, r.err, <<"pem.Decode", "x509.ParseECPrivateKey">>)

\* ParseX509(s string) (*x509.Certificate, error).
ParseX509(s) ==
  LET block == pemDecode(s) IN
  IF block.nil
  THEN Returns(Nil, errorsNew("invalid PEM"), <<"pem.Decode">>)
  ELSE LET r == ParseCertificate(block.Bytes)
       IN Returns(r.val, r.err, <<"pem.Decode", "x509.ParseCertificate">>)

\* decodeRawKey with a fault: it surfaces the first decoder's error.
decodeRawKeyFirstError(der) ==
  LET r1 == ParsePKIXPublicKey(der) IN
  IF r1.err # NoErr
  THEN LET r2 == ParseCertificate(der) IN
       IF r2.err # NoErr
       THEN [rawKey |-> Nil, err |-> r1.err,
             calls |-> <<"x509.ParsePKIXPublicKey", "x509.ParseCertificate">>]
       ELSE [rawKey |-> r2.val.PublicKey, err |-> NoErr,
             calls |-> <<"x509.ParsePKIXPublicKey", "x509.ParseCertificate">>]
  ELSE [rawKey |-> r1.val, err |-> NoErr, calls |-> <<"x509.ParsePKIXPublicKey">>]

\* ParsePublicKey, the two decode attempts: rawKey, or the error returned.
decodeRawKey(der) ==
  LET r1 == ParsePKIXPublicKey(der) IN
  IF r1.err # NoErr
  THEN LET r2 == ParseCertificate(der) IN
       IF r2.err # NoErr
       THEN [rawKey |-> Nil, err |-> r2.err,
             calls |-> <<"x509.ParsePKIXPublicKey", "x509.ParseCertificate">>]
       ELSE [rawKey |-> r2.val.PublicKey, err |-> NoErr,
             calls |-> <<"x509.ParsePKIXPublicKey", "x509.ParseCertificate">>]
  ELSE [rawKey |-> r1.val, err |-> NoErr, calls |-> <<"x509.ParsePKIXPublicKey">>]

\* classifyRawKey with a fault: the default arm is missing.
classifyRawKeyAcceptsAll(rawKey) == Ok(rawKey)

\* ParsePublicKey, the type switch on rawKey.
classifyRawKey(rawKey) ==
  CASE rawKey.type = "*rsa.PublicKey" -> Ok(rawKey)
    [] rawKey.type = "*ecdsa.PublicKey" -> Ok(rawKey)
    [] rawKey.type = "ed25519.PublicKey" -> Ok(rawKey)
    [] OTHER -> Fail(Errorf("unsupported key type: %T", <<rawKey.type>>))

\* ParsePublicKey(s string) (crypto.PublicKey, error); rawKey is its local.
ParsePublicKey(s) ==
  LET block == pemDecode(s) IN
  IF block.nil
  THEN [val |-> Nil, err |-> errorsNew("data does not contain any valid public keys"),
        calls |-> <<"pem.Decode">>, rawKey |-> Nil]
  ELSE LET d == decodeRawKey(block.Bytes) IN
       IF d.err # NoErr
       THEN [val |-> Nil, err |-> d.err, calls |-> <<"pem.Decode">> \o d.calls, rawKey |-> Nil]
       ELSE LET r == classifyRawKey(d.rawKey)
            IN [val |-> r.val, err |-> r.err, calls |-> <<"pem.Decode">> \o d.calls,
                rawKey |-> d.rawKey]

----------------------------------------------------------------------------
(* ComparePublicKeys and KeySize. *)

\* subtle.ConstantTimeCompare: 1 when x and y have equal contents, else 0.
ConstantTimeCompare(x, y) ==
  IF Len(x) # Len(y) THEN 0
  ELSE IF \A i \in 1..Len(x) : x[i] = y[i] THEN 1 ELSE 0

\* ed25519.PublicKey.Equal(x crypto.PublicKey).
Equal(pub, x) ==
  IF x.type # "ed25519.PublicKey" THEN FALSE
  ELSE ConstantTimeCompare(pub.bytes, x.bytes) = 1

\* ecdsa.PublicKey.Params(), promoted from the embedded elliptic.Curve.
Params(key) == key.Curve

ErrTypesDoNotMatch == "key types do not match: %T and %T"

\* compareRSA with a fault: it reports a key of another type as unequal.
compareRSAMismatchIsFalse(key1, key2) ==
  IF key2.type # "*rsa.PublicKey"
  THEN [val |-> FALSE, err |-> NoErr]
  ELSE [val |-> Cmp(key1.N, key2.N) # 0 \/ key1.E # key2.E, err |-> NoErr]

\* ComparePublicKeys, case *rsa.PublicKey.  In the mismatch error key2 is
\* the shadowing variable of the failed type assertion, so that %T prints
\* the asserted type for it.
compareRSA(key1, key2) ==
  IF key2.type # "*rsa.PublicKey"
  THEN [val |-> FALSE, err |-> Errorf(ErrTypesDoNotMatch, <<key1.type, "*rsa.PublicKey">>)]
  ELSE LET cmp == Cmp(key1.N, key2.N) # 0 \/ key1.E # key2.E
       IN [val |-> cmp, err |-> NoErr]

\* ComparePublicKeys, case *ecdsa.PublicKey.
compareECDSA(key1, key2) ==
  IF key2.type # "*ecdsa.PublicKey"
  THEN [val |-> FALSE, err |-> Errorf(ErrTypesDoNotMatch, <<key1.type, "*ecdsa.PublicKey">>)]
  ELSE IF Cmp(key1.X, key2.X) # 0 \/ Cmp(key1.Y, key2.Y) # 0
  THEN [val |-> FALSE, err |-> NoErr]
  ELSE LET par1 == Params(key1)
           par2 == Params(key2)
           cmp == \/ Cmp(par1.P, par2.P) # 0
                  \/ Cmp(par1.N, par2.N) # 0
                  \/ Cmp(par1.B, par2.B) # 0
                  \/ Cmp(par1.Gx, par2.Gx) # 0
                  \/ Cmp(par1.Gy, par2.Gy) # 0
                  \/ par1.BitSize # par2.BitSize
       IN [val |-> cmp, err |-> NoErr]

\* compareEd25519 with a fault: it leaves the type check to Equal.
compareEd25519EqualOnly(key1, key2) == [val |-> Equal(key1, key2), err |-> NoErr]

\* ComparePublicKeys, case ed25519.PublicKey.
compareEd25519(key1, key2) ==
  IF key2.type # "ed25519.PublicKey"
  THEN [val |-> FALSE, err |-> Errorf(ErrTypesDoNotMatch, <<key1.type, "ed25519.PublicKey">>)]
  ELSE [val |-> Equal(key1, key2), err |-> NoErr]

\* ComparePublicKeys(key1, key2 crypto.PublicKey) (bool, error).
ComparePublicKeys(key1, key2) ==
  CASE key1.type = "*rsa.PublicKey" -> compareRSA(key1, key2)
    [] key1.type = "*ecdsa.PublicKey" -> compareECDSA(key1, key2)
    [] key1.type = "ed25519.PublicKey" -> compareEd25519(key1, key2)
    [] OTHER -> [val |-> FALSE, err |-> Errorf("unsupported key type: %T", <<key1.type>>)]

\* rsa.PublicKey.Size(): the modulus size in bytes.
Size(key) == (BitLen(key.N) + 7) \div 8

\* The sentinel KeySize returns for an unsupported type.
Unsupported == -1

\* KeySize(key interface{}) int.
KeySize(key) ==
  CASE key.type = "*rsa.PrivateKey" -> Size(key) * 8
    [] key.type = "*rsa.PublicKey" -> Size(key) * 8
    [] key.type = "*ecdsa.PrivateKey" -> Params(key).BitSize
    [] key.type = "*ecdsa.PublicKey" -> Params(key).BitSize
    [] key.type = "ed25519.PrivateKey" -> Len(key.bytes) * 8
    [] key.type = "ed25519.PublicKey" -> Len(key.bytes) * 8
    [] key.type = "dsa.PrivateKey" -> BitLen(key.Y)
    [] key.type = "dsa.PublicKey" -> BitLen(key.Y)
    [] OTHER -> Unsupported

----------------------------------------------------------------------------
(* The state machine: a caller that is idle (op = "init") calls one of the *)
(* exported functions; the state then holds the call and its results until *)
(* the caller drops them.  After ComparePublicKeys the caller may call it  *)
(* again with the two arguments exchanged, keeping the first result.       *)

NoPrev == [set |-> FALSE]

Init ==
  /\ op = "init"
  /\ args = <<>>
  /\ ret = [val |-> Nil, err |-> NoErr]
  /\ calls = <<>>
  /\ prev = NoPrev

DoParseRSA ==
  /\ op = "init"
  /\ \E s \in Texts :
     LET r == ParseRSA(s) IN
     /\ op' = "ParseRSA"
     /\ args' = <<s>>
     /\ ret' = [val |-> r.val, err |-> r.err]
     /\ calls' = r.calls
     /\ prev' = NoPrev

DoParseECDSA ==
  /\ op = "init"
  /\ \E s \in Texts :
     LET r == ParseECDSA(s) IN
     /\ op' = "ParseECDSA"
     /\ args' = <<s>>
     /\ ret' = [val |-> r.val, err |-> r.err]
     /\ calls' = r.calls
     /\ prev' = NoPrev

DoParseX509 ==
  /\ op = "init"
  /\ \E s \in Texts :
     LET r == ParseX509(s) IN
     /\ op' = "ParseX509"
     /\ args' = <<s>>
     /\ ret' = [val |-> r.val, err |-> r.err]
     /\ calls' = r.calls
     /\ prev' = NoPrev

DoParsePublicKey ==
  /\ op = "init"
  /\ \E s \in Texts :
     LET r == ParsePublicKey(s) IN
     /\ op' = "ParsePublicKey"
     /\ args' = <<s>>
     /\ ret' = [val |-> r.val, err |-> r.err, rawKey |-> r.rawKey]
     /\ calls' = r.calls
     /\ prev' = NoPrev

DoComparePublicKeys ==
  /\ op = "init"
  /\ \E key1, key2 \in PublicKeys :
     /\ op' = "ComparePublicKeys"
     /\ args' = <<key1, key2>>
     /\ ret' = ComparePublicKeys(key1, key2)
     /\ calls' = <<>>
     /\ prev' = NoPrev

DoComparePublicKeysSwapped ==
  /\ op = "ComparePublicKeys"
  /\ ~prev.set
  /\ op' = op
  /\ args' = <<args[2], args[1]>>
  /\ ret' = ComparePublicKeys(args[2], args[1])
  /\ calls' = <<>>
  /\ prev' = [set |-> TRUE, ret |-> ret]

DoKeySize ==
  /\ op = "init"
  /\ \E key \in AnyKeys :
     /\ op' = "KeySize"
     /\ args' = <<key>>
     /\ ret' = [val |-> KeySize(key)]
     /\ calls' = <<>>
     /\ prev' = NoPrev

\* The caller drops the results; nothing is retained between calls.
Return ==
  /\ op # "init"
  /\ op' = "init"
  /\ args' = <<>>
  /\ ret' = [val |-> Nil, err |-> NoErr]
  /\ calls' = <<>>
  /\ prev' = NoPrev

Next ==
  \/ DoParseRSA
  \/ DoParseECDSA
  \/ DoParseX509
  \/ DoParsePublicKey
  \/ DoComparePublicKeys
  \/ DoComparePublicKeysSwapped
  \/ DoKeySize
  \/ Return

Spec == Init /\ [][Next]_vars

----------------------------------------------------------------------------
(* Properties. *)

SupportedFamilies == {"RSA", "EC", "Ed25519"}

IsCompare == op = "ComparePublicKeys"

\* C1: for two RSA public keys ComparePublicKeys returns no error, and
\* true if and only if the moduli are numerically equal and the exponents
\* are equal.
C1_RSAEqualIffSameModulusAndExponent ==
  (IsCompare /\ args[1].type = "*rsa.PublicKey" /\ args[2].type = "*rsa.PublicKey")
    => /\ ret.err = NoErr
       /\ ret.val <=> (args[1].N = args[2].N /\ args[1].E = args[2].E)

\* C2: for two EC public keys ComparePublicKeys returns no error, and true
\* if and only if the points are equal and all curve domain parameters
\* (P, N, B, Gx, Gy, BitSize) are equal.
C2_ECEqualIffSamePointAndCurve ==
  (IsCompare /\ args[1].type = "*ecdsa.PublicKey" /\ args[2].type = "*ecdsa.PublicKey")
    => LET a == args[1]
           b == args[2]
       IN /\ ret.err = NoErr
          /\ ret.val <=> /\ a.X = b.X /\ a.Y = b.Y
                         /\ a.Curve.P = b.Curve.P /\ a.Curve.N = b.Curve.N
                         /\ a.Curve.B = b.Curve.B /\ a.Curve.Gx = b.Curve.Gx
                         /\ a.Curve.Gy = b.Curve.Gy /\ a.Curve.BitSize = b.Curve.BitSize

\* C3: ComparePublicKeys(k, k) is true with no error for every RSA, EC and
\* Ed25519 public key k.
C3_CompareReflexive ==
  (IsCompare /\ Family(args[1]) \in SupportedFamilies
     /\ args[1].type = args[2].type /\ args[1] = args[2])
    => (ret.err = NoErr /\ ret.val = TRUE)

\* C4: for two public keys of different families among RSA, EC and Ed25519
\* ComparePublicKeys fails with the key-types-do-not-match error, in either
\* argument order, and never returns a result without an error.
C4_CrossFamilyFails ==
  (IsCompare /\ Family(args[1]) \in SupportedFamilies /\ Family(args[2]) \in SupportedFamilies
     /\ Family(args[1]) # Family(args[2]))
    => (ret.err # NoErr /\ ret.err.fmt = ErrTypesDoNotMatch /\ ret.val = FALSE)

C4_Witness ==
  /\ IsCompare
  /\ args[1].type = "*rsa.PublicKey"
  /\ args[2].type = "*ecdsa.PublicKey"
  /\ ret.err.fmt = ErrTypesDoNotMatch

\* C5: ComparePublicKeys(a, b) and ComparePublicKeys(b, a) return the same
\* boolean and the same error status, for keys of the same family or not.
C5_CompareSymmetric ==
  (IsCompare /\ prev.set)
    => /\ ret.val = prev.ret.val
       /\ (ret.err = NoErr) <=> (prev.ret.err = NoErr)

C5_Witness ==
  /\ IsCompare
  /\ prev.set
  /\ args[1].type = "ed25519.PublicKey"
  /\ args[2].type = "*rsa.PublicKey"
  /\ ret.err # NoErr
  /\ prev.ret.err # NoErr

IsParsePublicKey == op = "ParsePublicKey"

\* C6: ParsePublicKey tries the SubjectPublicKeyInfo decode and then the
\* certificate decode on the same payload: when the first succeeds its key
\* is used and the certificate decode is not called; when it fails and the
\* second succeeds the certificate's public key is used; when both fail the
\* certificate decode's error is returned, not the first one's.
C6_TwoStepFallback ==
  (IsParsePublicKey /\ args[1].armored)
    => LET der == args[1].payload IN
       /\ der.pkix.err = NoErr
            => /\ ret.rawKey = der.pkix.val
               /\ calls = <<"pem.Decode", "x509.ParsePKIXPublicKey">>
       /\ (der.pkix.err # NoErr /\ der.cert.err = NoErr)
            => /\ ret.rawKey = der.cert.val.PublicKey
               /\ calls = <<"pem.Decode", "x509.ParsePKIXPublicKey", "x509.ParseCertificate">>
       /\ (der.pkix.err # NoErr /\ der.cert.err # NoErr)
            => /\ IsNil(ret.val)
               /\ ret.err = der.cert.err
               /\ ret.err # der.pkix.err

C6_Witness ==
  /\ IsParsePublicKey
  /\ args[1].armored
  /\ args[1].payload.pkix.err # NoErr
  /\ args[1].payload.cert.err = NoErr
  /\ ret.err = NoErr
  /\ ret.val.type = "*ecdsa.PublicKey"
  /\ ret.val = args[1].payload.cert.val.PublicKey

Parsers == {"ParseRSA", "ParseECDSA", "ParseX509", "ParsePublicKey"}

MalformedInput ==
  {errorsNew("invalid PEM"), errorsNew("data does not contain any valid public keys")}

\* The decoder each parser is asked for, and its outcome on a payload.
RequestedDecode(o) ==
  CASE o = "ParseRSA" -> "x509.ParsePKCS1PrivateKey"
    [] o = "ParseECDSA" -> "x509.ParseECPrivateKey"
    [] o = "ParseX509" -> "x509.ParseCertificate"
    [] o = "ParsePublicKey" -> "x509.ParsePKIXPublicKey"

RequestedOutcome(o, der) ==
  CASE o = "ParseRSA" -> der.pkcs1
    [] o = "ParseECDSA" -> der.sec1
    [] o = "ParseX509" -> der.cert

\* C7: each parser fails with a malformed-input error, returns no value and
\* calls no DER decoder when pem.Decode finds no block; when a block is
\* found the requested decoder is called whatever the block's label is.
C7_NoBlockIsMalformedInput ==
  (op \in Parsers)
    => IF ~args[1].armored
       THEN /\ IsNil(ret.val)
            /\ ret.err \in MalformedInput
            /\ calls = <<"pem.Decode">>
       ELSE /\ Len(calls) >= 2
            /\ calls[1] = "pem.Decode"
            /\ calls[2] = RequestedDecode(op)
            /\ ret.err \notin MalformedInput
            /\ op # "ParsePublicKey"
                 => LET r == RequestedOutcome(op, args[1].payload)
                    IN ret.val = r.val /\ ret.err = r.err

C7_Witness ==
  /\ op = "ParseRSA"
  /\ args[1].armored
  /\ args[1].label = "CERTIFICATE"
  /\ calls = <<"pem.Decode", "x509.ParsePKCS1PrivateKey">>
  /\ ret.err = NoErr
  /\ ret.val.type = "*rsa.PrivateKey"

\* C8: when ParsePublicKey has obtained a key, it returns that key with no
\* error if and only if the key's family is RSA, EC or Ed25519; for a key
\* of another family it returns no key and the unsupported-key-type error
\* naming the key's type.
C8_OnlySupportedFamiliesAccepted ==
  (IsParsePublicKey /\ ~IsNil(ret.rawKey))
    => IF Family(ret.rawKey) \in SupportedFamilies
       THEN ret.err = NoErr /\ ret.val = ret.rawKey
       ELSE /\ IsNil(ret.val)
            /\ ret.err = Errorf("unsupported key type: %T", <<ret.rawKey.type>>)

C8_Witness ==
  /\ IsParsePublicKey
  /\ ret.rawKey.type = "*dsa.PublicKey"
  /\ IsNil(ret.val)
  /\ ret.err.fmt = "unsupported key type: %T"

IsKeySize == op = "KeySize"

\* The byte length of an integer's magnitude.
ByteLen(n) == CHOOSE b \in 0..8 : Pow2(8 * b) > n /\ (b = 0 \/ Pow2(8 * (b - 1)) <= n)

\* C9: KeySize gives, for public and private keys alike, the modulus byte
\* length times 8 for RSA, the curve's declared BitSize for EC, and the raw
\* key's byte length times 8 for Ed25519, which is 256 for an Ed25519
\* public key and for an Ed25519 private key.
C9_KeySizeFamilyRules ==
  IsKeySize
    => LET key == args[1] IN
       /\ key.type \in {"*rsa.PublicKey", "*rsa.PrivateKey"} => ret.val = ByteLen(key.N) * 8
       /\ key.type \in {"*ecdsa.PublicKey", "*ecdsa.PrivateKey"} => ret.val = key.Curve.BitSize
       /\ key.type \in {"ed25519.PublicKey", "ed25519.PrivateKey"}
            => (ret.val = Len(key.bytes) * 8 /\ ret.val = 256)

\* C10: KeySize returns a non-negative bit count or the sentinel -1, the
\* sentinel exactly when its argument is no RSA, EC, Ed25519 or DSA key,
\* held by value or by reference; every DSA key yields the bit length of Y.
C10_SentinelOnlyForOtherTypes ==
  IsKeySize
    => LET key == args[1] IN
       /\ ret.val >= -1
       /\ (ret.val = Unsupported) <=> (Family(key) = "other")
       /\ Family(key) = "DSA" => ret.val = BitLen(key.Y)

====
